---- MODULE Spec2Model ----
(***************************************************************************)
(* Azure blob storage glue of the insurance MLOps project:                 *)
(*   src/src/cloud_storage/azure_storage.py   AzureBlobStorageService      *)
(*   src/src/entity/s3_estimator.py           Proj1EstimatorAzure          *)
(*   src/src/configuration/azure_connection.py AzureBlobClient             *)
(* The remote store, the local filesystem and the Python exceptions are    *)
(* values; every method is an operator from the state before the call to   *)
(* the state after it together with what the caller receives.              *)
(***************************************************************************)
EXTENDS Integers, Sequences, FiniteSets, TLC

VARIABLES
    containers,     \* remote store: names of the containers that exist
    blobs,          \* remote store: <<container, blob>> -> bytes or Absent
    files,          \* local filesystem: path -> bytes or Absent
    loaded_model,   \* adapter -> self.loaded_model
    last,           \* the call that completed last and what its caller received
    goodLoads,      \* adapter -> predict calls that fetched a well-formed artifact
    uploaded,       \* <<container, blob>> -> bytes handed to the last upload that
                    \* succeeded there (Absent: none, or the blob was deleted since)
    blob_service_client,  \* the class attribute AzureBlobClient.blob_service_client
    environ,        \* os.environ[AZURE_STORAGE_CONNECTION_STRING], or NoneValue
    pc,             \* thread -> the line of AzureBlobClient.__init__ it is at
    connection_string,    \* thread -> the local variable of __init__
    built,          \* thread -> the client it constructed and has not yet stored
    held,           \* the handles the constructed AzureBlobClient instances hold
    handles,        \* BlobServiceClient objects constructed so far
    built_from,     \* the connection string the newest handle was built from
    instances,      \* AzureBlobClient instances constructed so far
    started,        \* thread -> constructions it has begun
    overlapped,     \* two constructions have been in progress at the same time
    stale           \* an instance was constructed after the variable had changed

storeVars == <<containers, blobs, files, loaded_model, last, goodLoads, uploaded>>
connVars == <<blob_service_client, environ, pc, connection_string, built, held,
              handles, built_from, instances, started, overlapped, stale>>
vars == <<storeVars, connVars>>

-----------------------------------------------------------------------------
(* Values *)

Absent == "<absent>"
NoneValue == "None"

Containers == {"c1", "c2"}
BlobNames == {"model.pkl"}
BlobKeys == Containers \X BlobNames

\* The Proj1EstimatorAzure instances of the process.
Adapters == {"A1", "A2"}

\* Byte strings are "pklA" and "pklB" (two pickled MyModel objects), "csv1" and
\* "csvN" (two CSV texts), "junk" (neither a pickle nor UTF-8 text) and "" (the
\* empty byte string).

\* Outcome of one request to the remote service: it answers, or the transport
\* or the authentication fails.
Answered == "answered"
Faults == {"ServiceRequestError", "ClientAuthenticationError"}
Outcomes == {Answered} \cup Faults

\* What a caller receives: a returned value or a raised exception.
Return(v) == [raised |-> FALSE, exc |-> NoneValue, cause |-> NoneValue, value |-> v]
Raise(e) == [raised |-> TRUE, exc |-> e, cause |-> NoneValue, value |-> NoneValue]
Str(bool) == IF bool THEN "True" ELSE "False"

\* State handed through a method: the remote store and the local files.
World(cs, bl, fl) == [containers |-> cs, blobs |-> bl, files |-> fl]
\* A finished method: what the caller receives, the world after it, and the
\* requests it issued to the remote service, in order.
Done(res, w, calls) == [res |-> res, world |-> w, calls |-> calls]

\* Local file paths the callers pass.
Paths == {"local.pkl", "temp_model.pkl"}

\* A call: the method, the adapter it is made on ("-": the storage service),
\* its arguments, and the outcome of each request it will issue.
Call(op, a, c, b, path, arg, o) ==
    [op |-> op, a |-> a, c |-> c, b |-> b, path |-> path, arg |-> arg, o |-> o]

-----------------------------------------------------------------------------
(* The SDK objects the service delegates to *)

\* ContainerClient.exists()
ContainerClientExists(w, name, o) ==
    IF o # Answered THEN Raise(o) ELSE Return(Str(name \in w.containers))

\* BlobClient.exists()
BlobClientExists(w, c, b, o) ==
    IF o # Answered THEN Raise(o) ELSE Return(Str(w.blobs[<<c, b>>] # Absent))

\* BlobClient.upload_blob(data, overwrite=True): the result and the blobs after
UploadBlob(w, c, b, data, o) ==
    IF o # Answered THEN [res |-> Raise(o), blobs |-> w.blobs]
    ELSE IF c \notin w.containers
    THEN [res |-> Raise("ResourceNotFoundError"), blobs |-> w.blobs]
    ELSE [res |-> Return(NoneValue), blobs |-> [w.blobs EXCEPT ![<<c, b>>] = data]]

\* BlobClient.download_blob().readall()
DownloadBlobReadall(w, c, b, o) ==
    IF o # Answered THEN Raise(o)
    ELSE IF w.blobs[<<c, b>>] = Absent THEN Raise("ResourceNotFoundError")
    ELSE Return(w.blobs[<<c, b>>])

\* ContainerClient.create_container()
ContainerClientCreate(w, name, o) ==
    IF o # Answered THEN [res |-> Raise(o), containers |-> w.containers]
    ELSE IF name \in w.containers
    THEN [res |-> Raise("ResourceExistsError"), containers |-> w.containers]
    ELSE [res |-> Return(NoneValue), containers |-> w.containers \cup {name}]

\* BlobClient.delete_blob()
BlobClientDelete(w, c, b, o) ==
    IF o # Answered THEN [res |-> Raise(o), blobs |-> w.blobs]
    ELSE IF w.blobs[<<c, b>>] = Absent
    THEN [res |-> Raise("ResourceNotFoundError"), blobs |-> w.blobs]
    ELSE [res |-> Return(NoneValue), blobs |-> [w.blobs EXCEPT ![<<c, b>>] = Absent]]

-----------------------------------------------------------------------------
(* pandas: DataFrame.to_csv(index=False), bytes.decode("utf-8"), read_csv *)

\* T1: a table of integers and strings.  TN: a table whose integer column holds
\* a null.  TNf: TN with that column read back as floats.
DataFrames == {"T1", "TN"}

to_csv(df) == IF df = "T1" THEN "csv1" ELSE "csvN"

decode_utf8(bytes) ==
    IF bytes \in {"csv1", "csvN", ""} THEN Return(bytes) ELSE Raise("UnicodeDecodeError")

read_csv(text) ==
    IF text = "csv1" THEN Return("T1")
    ELSE IF text = "csvN" THEN Return("TNf")
    ELSE Raise("EmptyDataError")

-----------------------------------------------------------------------------
(* AzureBlobStorageService *)

\* Mutant of LogAndReraise: the handler raises a new exception from the caught one.
LogAndRaiseFrom(res) == [res EXCEPT !.exc = "Exception", !.cause = res.exc]

\* except Exception as e: logging.error(...); raise
LogAndReraise(res) == res

container_exists(w, container_name, o) ==
    LET r == ContainerClientExists(w, container_name, o[1])
    IN  IF r.raised
        THEN Done(LogAndReraise(r), w, <<"exists">>)
        ELSE Done(r, w, <<"exists">>)

blob_exists(w, container_name, blob_name, o) ==
    LET r == BlobClientExists(w, container_name, blob_name, o[1])
    IN  IF r.raised
        THEN Done(LogAndReraise(r), w, <<"exists">>)
        ELSE Done(r, w, <<"exists">>)

\* Mutant of upload_file: upload_blob is called without overwrite=True, so the
\* service refuses to replace a blob that exists.
upload_file_no_overwrite(w, file_path, container_name, blob_name, o) ==
    IF w.files[file_path] = Absent
    THEN Done(Raise("FileNotFoundError"), w, <<>>)
    ELSE LET u == UploadBlob(w, container_name, blob_name, w.files[file_path], o[1])
         IN  IF u.res.raised
             THEN Done(u.res, w, <<"upload_blob">>)
             ELSE IF w.blobs[<<container_name, blob_name>>] # Absent
             THEN Done(Raise("ResourceExistsError"), w, <<"upload_blob">>)
             ELSE Done(Return(NoneValue), [w EXCEPT !.blobs = u.blobs], <<"upload_blob">>)

upload_file(w, file_path, container_name, blob_name, o) ==
    IF w.files[file_path] = Absent
    THEN \* open(file_path, "rb") raises before any request is made
         Done(LogAndReraise(Raise("FileNotFoundError")), w, <<>>)
    ELSE LET u == UploadBlob(w, container_name, blob_name, w.files[file_path], o[1])
         IN  IF u.res.raised
             THEN Done(LogAndReraise(u.res), w, <<"upload_blob">>)
             ELSE Done(Return(NoneValue), [w EXCEPT !.blobs = u.blobs], <<"upload_blob">>)

download_blob(w, container_name, blob_name, file_path, o) ==
    LET \* open(file_path, "wb") creates or truncates the file first
        opened == [w EXCEPT !.files[file_path] = ""]
        r == DownloadBlobReadall(w, container_name, blob_name, o[1])
    IN  IF r.raised
        THEN Done(LogAndReraise(r), opened, <<"download_blob">>)
        ELSE Done(Return(NoneValue), [w EXCEPT !.files[file_path] = r.value],
                  <<"download_blob">>)

upload_dataframe_as_csv(w, df, container_name, blob_name, o) ==
    LET u == UploadBlob(w, container_name, blob_name, to_csv(df), o[1])
    IN  IF u.res.raised
        THEN Done(LogAndReraise(u.res), w, <<"upload_blob">>)
        ELSE Done(Return(NoneValue), [w EXCEPT !.blobs = u.blobs], <<"upload_blob">>)

read_blob_as_dataframe(w, container_name, blob_name, o) ==
    LET r == DownloadBlobReadall(w, container_name, blob_name, o[1])
        t == decode_utf8(r.value)
        d == read_csv(t.value)
    IN  IF r.raised THEN Done(LogAndReraise(r), w, <<"download_blob">>)
        ELSE IF t.raised THEN Done(LogAndReraise(t), w, <<"download_blob">>)
        ELSE IF d.raised THEN Done(LogAndReraise(d), w, <<"download_blob">>)
        ELSE Done(d, w, <<"download_blob">>)

\* Mutant of create_container: the create request is sent without asking whether
\* the container exists.
create_container_unchecked(w, container_name, o) ==
    LET cr == ContainerClientCreate(w, container_name, o[1])
    IN  IF cr.res.raised
        THEN Done(cr.res, w, <<"create_container">>)
        ELSE Done(Return(NoneValue), [w EXCEPT !.containers = cr.containers],
                  <<"create_container">>)

create_container(w, container_name, o) ==
    LET e == ContainerClientExists(w, container_name, o[1])
        cr == ContainerClientCreate(w, container_name, o[2])
    IN  IF e.raised THEN Done(LogAndReraise(e), w, <<"exists">>)
        ELSE IF e.value = "True" THEN Done(Return(NoneValue), w, <<"exists">>)
        ELSE IF cr.res.raised
        THEN Done(LogAndReraise(cr.res), w, <<"exists", "create_container">>)
        ELSE Done(Return(NoneValue), [w EXCEPT !.containers = cr.containers],
                  <<"exists", "create_container">>)

delete_blob(w, container_name, blob_name, o) ==
    LET d == BlobClientDelete(w, container_name, blob_name, o[1])
    IN  IF d.res.raised
        THEN Done(LogAndReraise(d.res), w, <<"delete_blob">>)
        ELSE Done(Return(NoneValue), [w EXCEPT !.blobs = d.blobs], <<"delete_blob">>)

-----------------------------------------------------------------------------
(* Proj1EstimatorAzure *)

\* self.container_name and self.model_path, set by __init__
container_name(a) == IF a = "A1" THEN "c1" ELSE "c2"
model_path(a) == "model.pkl"

\* The names s3_estimator.py binds at module level (its import statements).
ModuleNames == {"AzureBlobStorageService", "MyException", "MyModel", "sys", "DataFrame", "os"}

\* MyException(e, sys): the domain error, carrying the exception it wraps.
MyException(res) ==
    [raised |-> TRUE, exc |-> "MyException", cause |-> res.exc, value |-> NoneValue]

\* Whether `except cls` catches an exception of class exc.
Catches(cls, exc) == cls = "Exception" \/ cls = exc

\* pickle.load(model_file): the name is looked up, then the bytes are read.
Models == {"A", "B"}
pickle_load(bytes) ==
    IF "pickle" \notin ModuleNames THEN Raise("NameError")
    ELSE IF bytes = "pklA" THEN Return("A")
    ELSE IF bytes = "pklB" THEN Return("B")
    ELSE IF bytes = "" THEN Raise("EOFError")
    ELSE Raise("UnpicklingError")

\* self.loaded_model.predict(dataframe=dataframe): the model's own method,
\* which answers with its predictions or raises.
MyModel_predict(m, dataframe, ok) ==
    IF ok THEN Return(m) ELSE Raise("ValueError")

\* A finished adapter method: as Done, with self.loaded_model after it.
DoneA(res, w, calls, lm) == [res |-> res, world |-> w, calls |-> calls, loaded |-> lm]

is_model_present(w, a, o) ==
    LET d == blob_exists(w, container_name(a), model_path(a), o)
    IN  IF d.res.raised /\ Catches("MyException", d.res.exc)
        THEN Done(Return("False"), d.world, d.calls)
        ELSE d

temp_file_path == "temp_model.pkl"

load_model(w, a, o) ==
    LET d == download_blob(w, container_name(a), model_path(a), temp_file_path, o)
        m == pickle_load(d.world.files[temp_file_path])
    IN  IF d.res.raised THEN Done(MyException(d.res), d.world, d.calls)
        ELSE IF m.raised THEN Done(MyException(m), d.world, d.calls)
        ELSE \* os.remove(temp_file_path)
             Done(m, [d.world EXCEPT !.files[temp_file_path] = Absent], d.calls)

\* Mutant of save_model: the local file is removed before the upload's outcome
\* is known, as a finally clause would.
save_model_remove_always(w, a, from_file, remove, o) ==
    LET d == upload_file(w, from_file, container_name(a), model_path(a), o)
        gone == IF remove THEN [d.world EXCEPT !.files[from_file] = Absent] ELSE d.world
    IN  IF d.res.raised THEN Done(MyException(d.res), gone, d.calls)
        ELSE Done(Return(NoneValue), gone, d.calls)

save_model(w, a, from_file, remove, o) ==
    LET d == upload_file(w, from_file, container_name(a), model_path(a), o)
    IN  IF d.res.raised THEN Done(MyException(d.res), d.world, d.calls)
        ELSE IF remove
        THEN \* os.remove(from_file)
             Done(Return(NoneValue), [d.world EXCEPT !.files[from_file] = Absent], d.calls)
        ELSE Done(Return(NoneValue), d.world, d.calls)

predict(w, lm, a, dataframe, o, ok) ==
    LET d == load_model(w, a, o)
    IN  IF lm = NoneValue
        THEN IF d.res.raised
             THEN DoneA(MyException(d.res), d.world, d.calls, lm)
             ELSE LET p == MyModel_predict(d.res.value, dataframe, ok)
                  IN  DoneA(IF p.raised THEN MyException(p) ELSE p,
                            d.world, d.calls, d.res.value)
        ELSE LET p == MyModel_predict(lm, dataframe, ok)
             IN  DoneA(IF p.raised THEN MyException(p) ELSE p, w, <<>>, lm)

-----------------------------------------------------------------------------
(* AzureBlobClient *)

Threads == {"T1", "T2"}
MaxConstructions == 2

\* Values of the environment variable.
ConnectionStrings == {"cs1", "cs2"}

\* Clients are numbered from 1 in the order they are built; NoClient is None.
NoClient == 0

\* Mutant of NeedsClient: the constructor builds a client without looking at the
\* class attribute.
NeedsClientAlways(attr) == TRUE

\* if AzureBlobClient.blob_service_client is None:
NeedsClient(attr) == attr = NoClient

-----------------------------------------------------------------------------
(* Initial states *)

NoCall == Call("-", "-", "-", "-", "-", "-", <<>>)


\* No process has constructed an AzureBlobClient yet.
ConnFresh ==
    /\ blob_service_client = NoClient
    /\ environ \in ConnectionStrings \cup {NoneValue}
    /\ pc = [t \in Threads |-> "idle"]
    /\ connection_string = [t \in Threads |-> NoneValue]
    /\ built = [t \in Threads |-> NoClient]
    /\ held = {}
    /\ handles = 0
    /\ built_from = NoneValue
    /\ instances = 0
    /\ started = [t \in Threads |-> 0]
    /\ overlapped = FALSE
    /\ stale = FALSE


\* The sequential callers below construct no AzureBlobClient.
ConnIdle == ConnFresh /\ environ = "cs1"

StoreIdle ==
    /\ containers = {}
    /\ blobs = [k \in BlobKeys |-> Absent]
    /\ files = [p \in Paths |-> Absent]
    /\ loaded_model = [a \in Adapters |-> NoneValue]
    /\ last = [call |-> NoCall, res |-> Return(NoneValue), calls |-> <<>>]
    /\ goodLoads = [a \in Adapters |-> 0]
    /\ uploaded = blobs


-----------------------------------------------------------------------------
(* Calls to the storage service, one caller at a time *)

Now == World(containers, blobs, files)

Outcomes1 == [1..1 -> Outcomes]
Outcomes2 == [1..2 -> Outcomes]

\* The call `call` finished as `d`: the world becomes d's, `last` records it.
Finish(call, d) ==
    /\ containers' = d.world.containers
    /\ blobs' = d.world.blobs
    /\ files' = d.world.files
    /\ last' = [call |-> call, res |-> d.res, calls |-> d.calls]

AdapterUnchanged == UNCHANGED <<loaded_model, goodLoads, connVars>>

\* The finished call d was asked to store `data` at <<c, b>>.
Stored(d, c, b, data) ==
    uploaded' = IF d.res.raised THEN uploaded ELSE [uploaded EXCEPT ![<<c, b>>] = data]

ContainerExists ==
    \E c \in Containers, o \in Outcomes1 :
        /\ Finish(Call("container_exists", "-", c, "-", "-", "-", o),
                  container_exists(Now, c, o))
        /\ AdapterUnchanged
        /\ UNCHANGED uploaded

BlobExists ==
    \E c \in Containers, b \in BlobNames, o \in Outcomes1 :
        /\ Finish(Call("blob_exists", "-", c, b, "-", "-", o), blob_exists(Now, c, b, o))
        /\ AdapterUnchanged
        /\ UNCHANGED uploaded

UploadFile ==
    \E p \in Paths, c \in Containers, b \in BlobNames, o \in Outcomes1 :
        /\ Finish(Call("upload_file", "-", c, b, p, "-", o), upload_file(Now, p, c, b, o))
        /\ AdapterUnchanged
        /\ Stored(upload_file(Now, p, c, b, o), c, b, files[p])

DownloadBlob ==
    \E p \in Paths, c \in Containers, b \in BlobNames, o \in Outcomes1 :
        /\ Finish(Call("download_blob", "-", c, b, p, "-", o),
                  download_blob(Now, c, b, p, o))
        /\ AdapterUnchanged
        /\ UNCHANGED uploaded

UploadDataframeAsCsv ==
    \E df \in DataFrames, c \in Containers, b \in BlobNames, o \in Outcomes1 :
        /\ Finish(Call("upload_dataframe_as_csv", "-", c, b, "-", df, o),
                  upload_dataframe_as_csv(Now, df, c, b, o))
        /\ AdapterUnchanged
        /\ Stored(upload_dataframe_as_csv(Now, df, c, b, o), c, b, to_csv(df))

ReadBlobAsDataframe ==
    \E c \in Containers, b \in BlobNames, o \in Outcomes1 :
        /\ Finish(Call("read_blob_as_dataframe", "-", c, b, "-", "-", o),
                  read_blob_as_dataframe(Now, c, b, o))
        /\ AdapterUnchanged
        /\ UNCHANGED uploaded

CreateContainer ==
    \E c \in Containers, o \in Outcomes2 :
        /\ Finish(Call("create_container", "-", c, "-", "-", "-", o),
                  create_container(Now, c, o))
        /\ AdapterUnchanged
        /\ UNCHANGED uploaded

DeleteBlob ==
    \E c \in Containers, b \in BlobNames, o \in Outcomes1 :
        /\ Finish(Call("delete_blob", "-", c, b, "-", "-", o), delete_blob(Now, c, b, o))
        /\ AdapterUnchanged
        /\ Stored(delete_blob(Now, c, b, o), c, b, Absent)


\* A new account: no container, no blob; the caller holds one local file.
InitStorage ==
    /\ ConnIdle
    /\ containers = {}
    /\ blobs = [k \in BlobKeys |-> Absent]
    /\ files = [p \in Paths |-> IF p = "local.pkl" THEN "pklA" ELSE Absent]
    /\ loaded_model = [a \in Adapters |-> NoneValue]
    /\ last = [call |-> NoCall, res |-> Return(NoneValue), calls |-> <<>>]
    /\ goodLoads = [a \in Adapters |-> 0]
    /\ uploaded = blobs

NextStorage ==
    \/ ContainerExists
    \/ BlobExists
    \/ UploadFile
    \/ DownloadBlob
    \/ UploadDataframeAsCsv
    \/ ReadBlobAsDataframe
    \/ CreateContainer
    \/ DeleteBlob

SpecStorage == InitStorage /\ [][NextStorage]_vars

-----------------------------------------------------------------------------
(* Calls to the adapters, one caller at a time *)

MaxLoads == 2

\* Requests named `name` among `calls`.
Count(calls, name) == Cardinality({i \in DOMAIN calls : calls[i] = name})

WellFormed(bytes) == bytes \in {"pklA", "pklB"}

IsModelPresent ==
    \E a \in Adapters, o \in Outcomes1 :
        /\ Finish(Call("is_model_present", a, container_name(a), model_path(a), "-", "-", o),
                  is_model_present(Now, a, o))
        /\ AdapterUnchanged
        /\ UNCHANGED uploaded

LoadModel ==
    \E a \in Adapters, o \in Outcomes1 :
        /\ Finish(Call("load_model", a, container_name(a), model_path(a), "-", "-", o),
                  load_model(Now, a, o))
        /\ AdapterUnchanged
        /\ UNCHANGED uploaded

SaveModel ==
    \E a \in Adapters, p \in Paths, remove \in BOOLEAN, o \in Outcomes1 :
        /\ Finish(Call("save_model", a, container_name(a), model_path(a), p, Str(remove), o),
                  save_model(Now, a, p, remove, o))
        /\ AdapterUnchanged
        /\ Stored(save_model(Now, a, p, remove, o), container_name(a), model_path(a), files[p])

Predict ==
    \E a \in Adapters, df \in DataFrames, o \in Outcomes1, ok \in BOOLEAN :
        LET d == predict(Now, loaded_model[a], a, df, o, ok)
            n == Count(d.calls, "download_blob")
            key == <<container_name(a), model_path(a)>>
            good == n > 0 /\ o[1] = Answered /\ WellFormed(blobs[key])
        IN  /\ good => goodLoads[a] < MaxLoads
            /\ Finish(Call("predict", a, container_name(a), model_path(a), "-", df, o), d)
            /\ loaded_model' = [loaded_model EXCEPT ![a] = d.loaded]
            /\ goodLoads' = [goodLoads EXCEPT ![a] = IF good THEN @ + 1 ELSE @]
            /\ UNCHANGED <<uploaded, connVars>>

\* The containers exist; each adapter's artifact is missing, a pickled model or
\* malformed; a newly trained model waits in a local file.
InitEstimator ==
    /\ ConnIdle
    /\ containers = Containers
    /\ blobs \in [BlobKeys -> {Absent, "pklA", "junk"}]
    /\ files = [p \in Paths |-> IF p = "local.pkl" THEN "pklB" ELSE Absent]
    /\ loaded_model = [a \in Adapters |-> NoneValue]
    /\ last = [call |-> NoCall, res |-> Return(NoneValue), calls |-> <<>>]
    /\ goodLoads = [a \in Adapters |-> 0]
    /\ uploaded = blobs

NextEstimator ==
    \/ IsModelPresent
    \/ LoadModel
    \/ SaveModel
    \/ Predict

SpecEstimator == InitEstimator /\ [][NextEstimator]_vars

-----------------------------------------------------------------------------
(* Constructions of AzureBlobClient, from several threads *)

\* A thread calls AzureBlobClient().
Construct(t) ==
    /\ pc[t] = "idle"
    /\ started[t] < MaxConstructions
    /\ started' = [started EXCEPT ![t] = @ + 1]
    /\ overlapped' = (overlapped \/ \E u \in Threads \ {t} : pc[u] # "idle")
    /\ pc' = [pc EXCEPT ![t] = "test_attr"]
    /\ UNCHANGED <<blob_service_client, environ, connection_string, built, held,
                   handles, built_from, instances, stale, storeVars>>

\* if AzureBlobClient.blob_service_client is None:
TestAttr(t) ==
    /\ pc[t] = "test_attr"
    /\ pc' = [pc EXCEPT ![t] = IF NeedsClient(blob_service_client) THEN "getenv" ELSE "bind"]
    /\ UNCHANGED <<blob_service_client, environ, connection_string, built, held,
                   handles, built_from, instances, started, overlapped, stale, storeVars>>

\* connection_string = os.getenv(connection_string_env_key)
\* if connection_string is None: raise Exception(...)
GetEnv(t) ==
    /\ pc[t] = "getenv"
    /\ connection_string' = [connection_string EXCEPT ![t] = environ]
    /\ pc' = [pc EXCEPT ![t] = IF environ = NoneValue THEN "idle" ELSE "from_connection_string"]
    /\ UNCHANGED <<blob_service_client, environ, built, held, handles, built_from,
                   instances, started, overlapped, stale, storeVars>>

\* BlobServiceClient.from_connection_string(connection_string)
FromConnectionString(t) ==
    /\ pc[t] = "from_connection_string"
    /\ handles' = handles + 1
    /\ built' = [built EXCEPT ![t] = handles + 1]
    /\ built_from' = connection_string[t]
    /\ pc' = [pc EXCEPT ![t] = "set_attr"]
    /\ UNCHANGED <<blob_service_client, environ, connection_string, held, instances,
                   started, overlapped, stale, storeVars>>

\* AzureBlobClient.blob_service_client = <the client just built>
SetAttr(t) ==
    /\ pc[t] = "set_attr"
    /\ blob_service_client' = built[t]
    /\ built' = [built EXCEPT ![t] = NoClient]
    /\ pc' = [pc EXCEPT ![t] = "bind"]
    /\ UNCHANGED <<environ, connection_string, held, handles, built_from, instances,
                   started, overlapped, stale, storeVars>>

\* self.blob_service_client = AzureBlobClient.blob_service_client
Bind(t) ==
    /\ pc[t] = "bind"
    /\ held' = held \cup {blob_service_client}
    /\ instances' = instances + 1
    /\ stale' = (stale \/ environ # built_from)
    /\ pc' = [pc EXCEPT ![t] = "idle"]
    /\ UNCHANGED <<blob_service_client, environ, connection_string, built, handles,
                   built_from, started, overlapped, storeVars>>

\* The process, or its launcher, sets or unsets the environment variable.
SetEnviron ==
    /\ \E v \in (ConnectionStrings \cup {NoneValue}) \ {environ} : environ' = v
    /\ UNCHANGED <<blob_service_client, pc, connection_string, built, held, handles,
                   built_from, instances, started, overlapped, stale, storeVars>>

InitConn ==
    /\ ConnFresh
    /\ StoreIdle

NextConn ==
    \/ \E t \in Threads : Construct(t)
    \/ \E t \in Threads : TestAttr(t)
    \/ \E t \in Threads : GetEnv(t)
    \/ \E t \in Threads : FromConnectionString(t)
    \/ \E t \in Threads : SetAttr(t)
    \/ \E t \in Threads : Bind(t)
    \/ SetEnviron

SpecConn == InitConn /\ [][NextConn]_vars

-----------------------------------------------------------------------------
(* Properties of the adapter, under SpecEstimator *)

\* The artifact blob of the adapter the last call was made on.
LastKey == <<last.call.c, last.call.b>>

\* The model a pickled artifact holds.
ModelIn(bytes) == IF bytes = "pklA" THEN "A" ELSE "B"

\* C1: once a predict call on an adapter has fetched a well-formed artifact, the
\* model is cached on that adapter and no later predict call on it downloads
\* again: the adapter fetches its artifact exactly once.
C1_PredictDownloadsOnce ==
    \A a \in Adapters :
        goodLoads[a] >= 1 => (loaded_model[a] \in Models /\ goodLoads[a] = 1)

\* C2: when load_model has finished, returning the model or raising the domain
\* error, temp_model.pkl does not exist.
C2_TempFileRemoved ==
    last.call.op = "load_model" => files[temp_file_path] = Absent

\* C3: is_model_present never raises: it returns True when the blob exists,
\* False when it is absent, and False when the existence check itself failed.
C3_IsModelPresentNeverRaises ==
    last.call.op = "is_model_present" =>
        /\ ~last.res.raised
        /\ last.res.value = IF last.call.o[1] = Answered
                            THEN Str(blobs[LastKey] # Absent)
                            ELSE "False"

\* C5: save_model deletes the local file only after a successful upload: with
\* remove set and the upload done the file is gone; when the upload fails the
\* file is as it was and the domain error is raised; with remove unset the file
\* is never deleted.  It returns normally exactly when the blob has been
\* overwritten with the file's bytes.
C5_SaveModelRemovesAfterUpload ==
    [][LET c == last'.call
           key == <<c.c, c.b>>
           uploadFails == files[c.path] = Absent \/ c.o[1] # Answered
                          \/ c.c \notin containers
       IN  c.op = "save_model" =>
             /\ last'.res.raised = uploadFails
             /\ ~uploadFails => blobs'[key] = files[c.path]
             /\ ~uploadFails /\ c.arg = "True" => files'[c.path] = Absent
             /\ uploadFails =>
                  /\ files' = files
                  /\ blobs' = blobs
                  /\ last'.res.exc = "MyException"
             /\ c.arg = "False" => files' = files
      ]_vars

\* C5 witness: a save_model(from_file, remove=True) returned: the blob holds the
\* bytes and the local file is gone.
C5_Witness ==
    /\ last.call.op = "save_model"
    /\ last.call.arg = "True"
    /\ ~last.res.raised
    /\ files[last.call.path] = Absent
    /\ blobs[LastKey] = "pklB"

-----------------------------------------------------------------------------
(* Properties of the storage service, under SpecStorage *)

StorageOps ==
    {"container_exists", "blob_exists", "upload_file", "download_blob",
     "upload_dataframe_as_csv", "read_blob_as_dataframe", "create_container",
     "delete_blob"}

\* C6: create_container is idempotent for one sequential caller.
\* container_exists answers False for a container not yet created and True once
\* it is; create_container on a missing container creates it; on a container
\* that exists it sends no create request, changes neither the containers nor
\* their blobs, and fails only if the existence request itself failed.
C6_CreateContainerIdempotent ==
    [][LET c == last'.call
       IN  /\ c.op = "container_exists" /\ c.o[1] = Answered =>
                last'.res = Return(Str(c.c \in containers))
           /\ c.op = "create_container" /\ c.c \notin containers /\ ~last'.res.raised =>
                /\ containers' = containers \cup {c.c}
                /\ blobs' = blobs
           /\ c.op = "create_container" /\ c.c \in containers =>
                /\ Count(last'.calls, "create_container") = 0
                /\ containers' = containers
                /\ blobs' = blobs
                /\ last'.res = IF c.o[1] = Answered THEN Return(NoneValue)
                               ELSE Raise(c.o[1])
      ]_vars

\* C6 witness: create_container returned on a container that already existed
\* and holds a blob, having sent the existence request alone.
C6_Witness ==
    /\ last.call.op = "create_container"
    /\ ~last.res.raised
    /\ last.calls = <<"exists">>
    /\ last.call.c \in containers
    /\ blobs[<<last.call.c, "model.pkl">>] # Absent

C8_PassthroughFailure ==
    last.call.op \in StorageOps =>
        /\ \A i, j \in DOMAIN last.calls : last.calls[i] = last.calls[j] => i = j
        /\ \A i \in DOMAIN last.calls :
             last.call.o[i] \in Faults =>
                 /\ i = Len(last.calls)
                 /\ last.res = Raise(last.call.o[i])
        /\ last.res.raised => last.res.cause = NoneValue /\ last.res.exc # "MyException"
        /\ last.call.op \in {"download_blob", "read_blob_as_dataframe"}
             /\ last.call.o[1] = Answered /\ blobs[LastKey] = Absent =>
                 last.res = Raise("ResourceNotFoundError")

\* C8 witness: create_container found the container missing and its create
\* request failed in the transport.
C8_Witness ==
    /\ last.call.op = "create_container"
    /\ last.calls = <<"exists", "create_container">>
    /\ last.res = Raise("ServiceRequestError")

-----------------------------------------------------------------------------
(* Properties of AzureBlobClient, under SpecConn *)

\* C4: over any constructions, sequential or interleaved, the storage handle is
\* built at most once and every constructed instance holds that same handle.
C4_AtMostOneHandle ==
    /\ handles <= 1
    /\ Cardinality(held) <= 1

\* C4, amended: as long as no two constructions have been in progress at the
\* same time, the handle is built at most once, every constructed instance holds
\* it, and it is the class attribute, whatever the environment variable is now.
C4_AtMostOneHandleSequential ==
    ~overlapped =>
        /\ handles <= 1
        /\ held \subseteq {blob_service_client} \ {NoClient}
        /\ instances > 0 => handles = 1

\* C4 witness: sequential constructions made two instances on one handle, one of
\* them after the environment variable had changed.
C4_Witness ==
    /\ ~overlapped
    /\ instances >= 2
    /\ handles = 1
    /\ stale
    /\ held = {1}

====
